---- MODULE Spec2Model ----
(***************************************************************************)
(* Client configuration and request construction of influxdb-client-rust  *)
(* (src/client/mod.rs) and the JSON contract of HealthCheck                *)
(* (src/generated/models/health_check.rs).                                 *)
(*                                                                         *)
(* Rust Strings are sequences of one-character strings, so that parsing,   *)
(* formatting and header validation work on characters.                    *)
(***************************************************************************)
EXTENDS Integers, Sequences, FiniteSets, TLC

\* ------------------------------------------------------------- characters

\* The printable ASCII characters, code 32 (space) to 126 (~), in code order
\* (code 96, the grave accent, is spelled out: no input uses it).
Printable ==
    << " ", "!", "\"", "#", "$", "%", "&", "'", "(", ")", "*", "+", ",", "-", ".", "/",
       "0", "1", "2", "3", "4", "5", "6", "7", "8", "9", ":", ";", "<", "=", ">", "?",
       "@", "A", "B", "C", "D", "E", "F", "G", "H", "I", "J", "K", "L", "M", "N", "O",
       "P", "Q", "R", "S", "T", "U", "V", "W", "X", "Y", "Z", "[", "\\", "]", "^", "_",
       "GRAVE", "a", "b", "c", "d", "e", "f", "g", "h", "i", "j", "k", "l", "m", "n", "o",
       "p", "q", "r", "s", "t", "u", "v", "w", "x", "y", "z", "{", "|", "}", "~" >>

\* The byte of a character (ASCII); tab and line feed are the control
\* characters the inputs use.
CharCodes ==
    [c \in {"\t", "\n"} \cup {Printable[i] : i \in 1..Len(Printable)} |->
        IF c = "\t" THEN 9
        ELSE IF c = "\n" THEN 10
        ELSE 31 + (CHOOSE i \in 1..Len(Printable) : Printable[i] = c)]

CharCode(c) == CharCodes[c]

CharOf(code) == Printable[code - 31]

IsAsciiAlpha(c) ==
    LET b == CharCode(c) IN (b >= 65 /\ b <= 90) \/ (b >= 97 /\ b <= 122)

IsAsciiDigit(c) ==
    LET b == CharCode(c) IN b >= 48 /\ b <= 57

ToAsciiLowercase(c) ==
    LET b == CharCode(c) IN IF b >= 65 /\ b <= 90 THEN CharOf(b + 32) ELSE c

LowerStr(s) == [i \in 1..Len(s) |-> ToAsciiLowercase(s[i])]

\* Index of the first character of s that is in chars, or Len(s) + 1.
FirstIndexOf(s, chars) ==
    IF \E i \in 1..Len(s) : s[i] \in chars
    THEN CHOOSE i \in 1..Len(s) : s[i] \in chars /\ \A j \in 1..(i - 1) : s[j] \notin chars
    ELSE Len(s) + 1

\* Index of the first character of s that is not in chars, or Len(s) + 1.
FirstIndexNotOf(s, chars) ==
    IF \E i \in 1..Len(s) : s[i] \notin chars
    THEN CHOOSE i \in 1..Len(s) : s[i] \notin chars /\ \A j \in 1..(i - 1) : s[j] \in chars
    ELSE Len(s) + 1

\* Decimal value of a string of digits.
RECURSIVE DecimalValue(_)
DecimalValue(s) ==
    IF s = <<>> THEN 0
    ELSE 10 * DecimalValue(SubSeq(s, 1, Len(s) - 1)) + (CharCode(s[Len(s)]) - 48)

\* ------------------------------------------------------------- Url::parse

\* Rust's Option<T>: None is the empty sequence, Some(v) the sequence <<v>>.
None == <<>>
Some(v) == <<v>>
IsSome(o) == o # <<>>
Unwrap(o) == o[1]

SpecialSchemes == { <<"h", "t", "t", "p">>, <<"h", "t", "t", "p", "s">>, <<"w", "s">>, <<"w", "s", "s">>, <<"f", "t", "p">> }

DefaultPort(scheme) ==
    CASE scheme = <<"h", "t", "t", "p">>  -> 80
      [] scheme = <<"w", "s">>    -> 80
      [] scheme = <<"h", "t", "t", "p", "s">> -> 443
      [] scheme = <<"w", "s", "s">>   -> 443
      [] scheme = <<"f", "t", "p">>   -> 21
      [] OTHER -> 0

IsSchemeChar(c) == IsAsciiAlpha(c) \/ IsAsciiDigit(c) \/ c \in {"+", "-", "."}

UrlErr(msg) == [ok |-> FALSE, err |-> msg]

\* Url::parse on a string made of a scheme, an authority (host and port) and a
\* path, without a base URL: the scheme is lower-cased, a special scheme needs a
\* host, the default port is dropped, an empty path of a special scheme is "/".
\* The error messages are those of the Display of url::ParseError (kept as
\* plain strings: nothing reads their characters).
UrlParse(input) ==
    LET colon == FirstIndexOf(input, {":"})
        hasScheme == /\ input # <<>>
                     /\ IsAsciiAlpha(input[1])
                     /\ colon <= Len(input)
                     /\ \A i \in 1..(colon - 1) : IsSchemeChar(input[i])
    IN  IF ~hasScheme THEN UrlErr("relative URL without a base")
        ELSE
        LET scheme == LowerStr(SubSeq(input, 1, colon - 1))
            rest == SubSeq(input, colon + 1, Len(input))
        IN  IF scheme \notin SpecialSchemes
            THEN [ok |-> TRUE,
                  url |-> [scheme |-> scheme, host |-> None, port |-> None, path |-> rest]]
            ELSE
            LET afterSlashes == SubSeq(rest, FirstIndexNotOf(rest, {"/", "\\"}),
                                       Len(rest))
                authEnd == FirstIndexOf(afterSlashes, {"/", "\\"})
                authority == SubSeq(afterSlashes, 1, authEnd - 1)
                path == SubSeq(afterSlashes, authEnd, Len(afterSlashes))
                hostEnd == FirstIndexOf(authority, {":"})
                host == LowerStr(SubSeq(authority, 1, hostEnd - 1))
                portStr == SubSeq(authority, hostEnd + 1, Len(authority))
                portOk == /\ \A i \in 1..Len(portStr) : IsAsciiDigit(portStr[i])
                          /\ Len(portStr) <= 5
                          /\ DecimalValue(portStr) <= 65535
                port == IF portStr = <<>> \/ DecimalValue(portStr) = DefaultPort(scheme)
                        THEN None ELSE Some(DecimalValue(portStr))
            IN  IF host = <<>> THEN UrlErr("empty host")
                ELSE IF ~portOk THEN UrlErr("invalid port number")
                ELSE [ok |-> TRUE,
                      url |-> [scheme |-> scheme, host |-> Some(host), port |-> port,
                               path |-> IF path = <<>> THEN <<"/">> ELSE path]]

\* ------------------------------------------------------- HTTP header values

\* http::HeaderValue accepts a byte b when b >= 32 and b # 127, or b is a tab;
\* reqwest converts every header value through it.
HeaderValueOk(v) ==
    \A i \in 1..Len(v) :
        LET b == CharCode(v[i]) IN (b >= 32 /\ b # 127) \/ b = 9

\* The standard base64 alphabet.
Base64Alphabet ==
    << "A", "B", "C", "D", "E", "F", "G", "H", "I", "J", "K", "L", "M", "N", "O", "P",
       "Q", "R", "S", "T", "U", "V", "W", "X", "Y", "Z", "a", "b", "c", "d", "e", "f",
       "g", "h", "i", "j", "k", "l", "m", "n", "o", "p", "q", "r", "s", "t", "u", "v",
       "w", "x", "y", "z", "0", "1", "2", "3", "4", "5", "6", "7", "8", "9", "+", "/" >>

\* base64::encode of a string, three bytes to four characters, padded with "=".
RECURSIVE Base64Encode(_)
Base64Encode(s) ==
    IF s = <<>> THEN <<>>
    ELSE
    LET n  == IF Len(s) >= 3 THEN 3 ELSE Len(s)
        b1 == CharCode(s[1])
        b2 == IF n >= 2 THEN CharCode(s[2]) ELSE 0
        b3 == IF n >= 3 THEN CharCode(s[3]) ELSE 0
        w  == b1 * 65536 + b2 * 256 + b3
        c1 == Base64Alphabet[(w \div 262144) + 1]
        c2 == Base64Alphabet[((w \div 4096) % 64) + 1]
        c3 == IF n >= 2 THEN Base64Alphabet[((w \div 64) % 64) + 1] ELSE "="
        c4 == IF n >= 3 THEN Base64Alphabet[(w % 64) + 1] ELSE "="
    IN  <<c1, c2, c3, c4>> \o Base64Encode(SubSeq(s, n + 1, Len(s)))

\* ------------------------------------------------------------ the Client

\* The variants of WritePrecision (generated/models/write_precision.rs).
WritePrecision == {"Ms", "S", "Us", "Ns"}

\* env!("CARGO_PKG_VERSION"), the version tests::test_user_agent_header expects.
CARGO_PKG_VERSION == <<"1", ".", "0", ".", "0", "-", "a", "l", "p", "h", "a">>

APP_USER_AGENT == <<"i", "n", "f", "l", "u", "x", "d", "b", "-", "c", "l", "i", "e", "n", "t", "-", "r", "u", "s", "t", "/">> \o CARGO_PKG_VERSION

\* struct Auth
Auth(authorization_header) == [authorization_header |-> authorization_header]

\* The outcome of a constructor: a Client, or a panic with its message.
Built(c) == [panicked |-> FALSE, client |-> c]
Panic(msg) == [panicked |-> TRUE, msg |-> msg]

\* reqwest::Client::builder().user_agent(APP_USER_AGENT).build().unwrap(): the
\* builder starts with the default header Accept: */*, user_agent adds
\* User-Agent when the value is a legal header value, and build fails (so
\* unwrap panics) when it is not.
build_http_client ==
    IF HeaderValueOk(APP_USER_AGENT)
    THEN Built([default_headers |-> << <<"accept", <<"*", "/", "*">>>>,
                                       <<"user-agent", APP_USER_AGENT>> >>])
    ELSE Panic("called Result::unwrap() on an Err value")

\* build_client that leaves the precision unset.
build_client_no_precision(url, auth) ==
    LET parsed == UrlParse(url) IN
    IF ~parsed.ok THEN Panic(parsed.err)
    ELSE Built([url |-> parsed.url, auth |-> auth, org |-> None, bucket |-> None,
                precision |-> None, http_client |-> build_http_client.client])

\* build_client that falls back to a default URL when the string does not parse.
build_client_fallback_url(url, auth) ==
    LET parsed == UrlParse(url)
        fallback == UrlParse(<<"h", "t", "t", "p", ":", "/", "/", "l", "o", "c", "a", "l", "h", "o", "s", "t", ":", "9", "9", "9", "9">>)
    IN  Built([url |-> IF parsed.ok THEN parsed.url ELSE fallback.url,
               auth |-> auth, org |-> None, bucket |-> None,
               precision |-> Some("Ns"), http_client |-> build_http_client.client])

\* Client::build_client
build_client(url, auth) ==
    LET parsed == UrlParse(url) IN
    IF ~parsed.ok THEN Panic(parsed.err)
    ELSE IF build_http_client.panicked THEN build_http_client
    ELSE Built([url         |-> parsed.url,
                auth        |-> auth,
                org         |-> None,
                bucket      |-> None,
                precision   |-> Some("Ns"),
                http_client |-> build_http_client.client])

\* with_org that keeps an org that is already set.
with_org_keep(self, org) ==
    IF IsSome(self.org) THEN self ELSE [self EXCEPT !.org = Some(org)]

\* Client::with_org
with_org(self, org) == [self EXCEPT !.org = Some(org)]

\* with_bucket that starts from a configuration without org.
with_bucket_reset(self, bucket) == [self EXCEPT !.bucket = Some(bucket), !.org = None]

\* Client::with_bucket
with_bucket(self, bucket) == [self EXCEPT !.bucket = Some(bucket)]

\* with_precision that rebuilds the client, without its authorization.
with_precision_rebuild(self, precision) ==
    [self EXCEPT !.precision = Some(precision), !.auth = Auth(None)]

\* Client::with_precision
with_precision(self, precision) == [self EXCEPT !.precision = Some(precision)]

\* new that takes an empty token for no authorization at all.
new_empty_token(url, token) ==
    build_client(url, Auth(IF token = <<>> THEN None ELSE Some(<<"T", "o", "k", "e", "n", " ">> \o token)))

\* Client::new
new(url, token) ==
    build_client(url, Auth(Some(<<"T", "o", "k", "e", "n", " ">> \o token)))

\* new_v1 that sends the credentials as basic authorization and sets no org.
new_v1_basic(url, username, password, database, retention_policy) ==
    LET auth == Auth(Some(<<"B", "a", "s", "i", "c", " ">> \o username \o <<":">> \o password))
        built == build_client(url, auth)
    IN  IF built.panicked THEN built
        ELSE Built(with_bucket(built.client, database \o <<"/">> \o retention_policy))

\* Client::new_v1
new_v1(url, username, password, database, retention_policy) ==
    LET auth == Auth(Some(<<"T", "o", "k", "e", "n", " ">> \o username \o <<":">> \o password))
        built == build_client(url, auth)
    IN  IF built.panicked THEN built
        ELSE Built(with_bucket(with_org(built.client, <<"-">>),
                               database \o <<"/">> \o retention_policy))

\* ---------------------------------------------------------- build_request

\* A RequestBuilder holds a request or the first error of its construction.
RequestErr(msg) == [ok |-> FALSE, err |-> msg]

\* reqwest::Client::request(method, url): IntoUrl refuses a Url without a host.
http_request(http_client, method, url) ==
    IF IsSome(url.host)
    THEN [ok |-> TRUE, method |-> method, url |-> url, headers |-> <<>>]
    ELSE RequestErr("builder error: URL scheme is not allowed")

\* RequestBuilder::header: appends the header when the value is a legal header
\* value; otherwise the builder keeps the error instead of the request. A
\* builder that already holds an error stays as it is.
header(request, name, value) ==
    IF ~request.ok THEN request
    ELSE IF ~HeaderValueOk(value)
    THEN RequestErr("builder error: failed to parse header value")
    ELSE [request EXCEPT !.headers = Append(@, <<name, value>>)]

\* RequestBuilder::basic_auth(username, Some(password)): the Authorization
\* header "Basic " + base64(username + ":" + password).
basic_auth(request, username, password) ==
    header(request, "authorization",
           <<"B", "a", "s", "i", "c", " ">> \o Base64Encode(username \o <<":">> \o password))

\* build_request that adds the authorization header twice.
build_request_twice(self, url, method) ==
    LET request == http_request(self.http_client, method, url) IN
    IF IsSome(self.auth.authorization_header)
    THEN header(header(request, "authorization", Unwrap(self.auth.authorization_header)),
                "authorization", Unwrap(self.auth.authorization_header))
    ELSE basic_auth(request, <<"r">>, <<"d">>)

\* build_request that sends no authorization when none is stored.
build_request_anonymous(self, url, method) ==
    LET request == http_request(self.http_client, method, url) IN
    IF IsSome(self.auth.authorization_header)
    THEN header(request, "authorization", Unwrap(self.auth.authorization_header))
    ELSE request

\* Client::build_request
build_request(self, url, method) ==
    LET request == http_request(self.http_client, method, url) IN
    IF IsSome(self.auth.authorization_header)
    THEN header(request, "authorization", Unwrap(self.auth.authorization_header))
    ELSE basic_auth(request, <<"r">>, <<"d">>)

\* The headers of a request as reqwest sends it: its own headers, then each
\* default header of the client the request does not set itself.
SentHeaders(http_client, request) ==
    request.headers \o
    SelectSeq(http_client.default_headers,
              LAMBDA d : \A i \in 1..Len(request.headers) : request.headers[i][1] # d[1])

\* The values of the headers called name.
HeaderValues(headers, name) ==
    LET hs == SelectSeq(headers, LAMBDA h : h[1] = name)
    IN  [i \in 1..Len(hs) |-> hs[i][2]]

\* ------------------------------------------------------------- HealthCheck

\* A JSON value: its type t, its text s when it is a string, its elements a
\* (JSON objects) when it is an array. A JSON object is a function from its
\* keys to JSON values, so the order of the keys does not count.
JNull == [t |-> "null", s |-> "", a |-> <<>>]
JString(str) == [t |-> "string", s |-> str, a |-> <<>>]
JNumber == [t |-> "number", s |-> "", a |-> <<>>]
JArray(objects) == [t |-> "array", s |-> "", a |-> objects]

DecodeOk(v) == [ok |-> TRUE, value |-> v]
DecodeErr(msg) == [ok |-> FALSE, err |-> msg]

\* Deserialize for String.
DeserializeString(v) ==
    IF v.t = "string" THEN DecodeOk(v.s) ELSE DecodeErr("invalid type")

\* Deserialize for Option<String>: null is None.
DeserializeOptionString(v) ==
    IF v.t = "null" THEN DecodeOk(None)
    ELSE IF v.t = "string" THEN DecodeOk(Some(v.s))
    ELSE DecodeErr("invalid type")

\* Deserialize for enum Status, by the serde names of its variants.
DeserializeStatus(v) ==
    IF v.t # "string" THEN DecodeErr("invalid type")
    ELSE IF v.s = "pass" THEN DecodeOk("Pass")
    ELSE IF v.s = "fail" THEN DecodeOk("Fail")
    ELSE DecodeErr("unknown variant")

\* Serialize for enum Status.
SerializeStatus(status) == JString(IF status = "Pass" THEN "pass" ELSE "fail")

\* A field that is not in the object: an Option field is None, any other
\* field is an error.
MissingField(optional) ==
    IF optional THEN DecodeOk(None) ELSE DecodeErr("missing field")

\* The derived Deserialize of struct HealthCheck from a JSON object: keys that
\* are not fields are skipped.
RECURSIVE DeserializeHealthCheck(_)
DeserializeHealthCheck(object) ==
    LET DeserializeChecks(v) ==
            IF v.t = "null" THEN DecodeOk(None)
            ELSE IF v.t # "array" THEN DecodeErr("invalid type")
            ELSE LET each == [i \in 1..Len(v.a) |-> DeserializeHealthCheck(v.a[i])]
                 IN  IF \E i \in 1..Len(each) : ~each[i].ok
                     THEN each[CHOOSE i \in 1..Len(each) :
                                 ~each[i].ok /\ \A j \in 1..(i - 1) : each[j].ok]
                     ELSE DecodeOk(Some([i \in 1..Len(each) |-> each[i].value]))
        Has(key) == key \in DOMAIN object
        name    == IF Has("name") THEN DeserializeString(object["name"])
                   ELSE MissingField(FALSE)
        message == IF Has("message") THEN DeserializeOptionString(object["message"])
                   ELSE MissingField(TRUE)
        checks  == IF Has("checks") THEN DeserializeChecks(object["checks"])
                   ELSE MissingField(TRUE)
        status  == IF Has("status") THEN DeserializeStatus(object["status"])
                   ELSE MissingField(FALSE)
        version == IF Has("version") THEN DeserializeOptionString(object["version"])
                   ELSE MissingField(TRUE)
        commit  == IF Has("commit") THEN DeserializeOptionString(object["commit"])
                   ELSE MissingField(TRUE)
        fields  == <<name, message, checks, status, version, commit>>
    IN  IF \E i \in 1..Len(fields) : ~fields[i].ok
        THEN fields[CHOOSE i \in 1..Len(fields) :
                      ~fields[i].ok /\ \A j \in 1..(i - 1) : fields[j].ok]
        ELSE DecodeOk([name    |-> name.value,
                       message |-> message.value,
                       checks  |-> checks.value,
                       status  |-> status.value,
                       version |-> version.value,
                       commit  |-> commit.value])

\* A HealthCheck whose Option fields carry no skip_serializing_if.
SkipSerializing_never(option) == FALSE

\* skip_serializing_if = "Option::is_none"
SkipSerializing(option) == option = None

\* The derived Serialize of struct HealthCheck: name and status always, an
\* Option field unless SkipSerializing.
RECURSIVE SerializeHealthCheck(_)
SerializeHealthCheck(hc) ==
    LET keys == {"name", "status"}
                \cup {k \in {"message", "checks", "version", "commit"} :
                        ~SkipSerializing(hc[k])}
        SerializeOption(option, Serialize(_)) ==
            IF option = None THEN JNull ELSE Serialize(Unwrap(option))
        SerializeChecks(cs) ==
            JArray([i \in 1..Len(cs) |-> SerializeHealthCheck(cs[i])])
    IN  [k \in keys |->
            CASE k = "name"    -> JString(hc.name)
              [] k = "status"  -> SerializeStatus(hc.status)
              [] k = "checks"  -> SerializeOption(hc.checks, SerializeChecks)
              [] OTHER         -> SerializeOption(hc[k], JString)]

\* HealthCheck::new
HealthCheck_new(name, status) ==
    [name |-> name, message |-> None, checks |-> None, status |-> status,
     version |-> None, commit |-> None]

\* ------------------------------------------------------------------ inputs

\* URL strings given to the constructors.
Urls ==
    { <<"h", "t", "t", "p", ":", "/", "/", "l", "o", "c", "a", "l", "h", "o", "s", "t", ":", "9", "9", "9", "9">>, <<"H", "T", "T", "P", ":", "/", "/", "L", "o", "c", "a", "l", "H", "o", "s", "t", ":", "8", "0">>, <<"m", "a", "i", "l", "t", "o", ":", "a">>,
      <<"x", "y", "z">>, <<>>, <<"h", "t", "t", "p", ":", "/", "/">>, <<"h", "t", "t", "p", ":", "/", "/", "l", "o", "c", "a", "l", "h", "o", "s", "t", ":", "x">> }

Tokens == { <<"m", "y", "-", "t", "o", "k", "e", "n">>, <<>>, <<"m", "y", "\n", "t", "o", "k", "e", "n">> }

Usernames == { <<"m", "y", "-", "u", "s", "e", "r">> }
Passwords == { <<"m", "y", "-", "p", "a", "s", "s", "w", "o", "r", "d">> }
Databases == { <<"t", "e", "l", "e", "g", "r", "a", "f">> }
RetentionPolicies == { <<"a", "u", "t", "o", "g", "e", "n">>, <<>> }

Orgs == { <<"m", "y", "-", "o", "r", "g">>, <<"o", "r", "g", "-", "2">> }
Buckets == { <<"m", "y", "-", "b", "u", "c", "k", "e", "t">>, <<"t", "e", "l", "e", "g", "r", "a", "f", "/", "a", "u", "t", "o", "g", "e", "n">> }

\* The Url values given to build_request.
RequestUrls ==
    { UrlParse(<<"h", "t", "t", "p", ":", "/", "/", "l", "o", "c", "a", "l", "h", "o", "s", "t", ":", "5", "0", "0", "0", "/", "a", "p", "i", "/", "v", "2", "/", "m", "o", "c", "k">>).url, UrlParse(<<"m", "a", "i", "l", "t", "o", ":", "a">>).url }

Methods == {"GET", "POST"}

\* The number of with_org, with_bucket and with_precision calls on a client.
MaxCalls == 3

\* The number of build_request calls on a client.
MaxRequests == 2

\* The nesting depth of the checks of a HealthCheck payload.
MaxDepth == 1

HealthCheckKeys == {"name", "message", "checks", "status", "version", "commit"}

\* The JSON object of a choice of each key's value; None leaves the key out.
ObjectOf(choice) ==
    [k \in {k \in DOMAIN choice : IsSome(choice[k])} |-> Unwrap(choice[k])]

\* The nested checks of a payload: well-formed or with an unknown status.
RECURSIVE NestedChecks(_)
NestedChecks(depth) ==
    IF depth = 0 THEN {}
    ELSE { ObjectOf(c) :
             c \in [name    : {Some(JString("db"))},
                    status  : {Some(JString("pass")), Some(JString("fail")),
                               Some(JString("warn"))},
                    message : {None, Some(JString("m"))},
                    checks  : {None} \cup {Some(JArray(<<n>>)) : n \in NestedChecks(depth - 1)}] }

\* The JSON payloads given to the decoder: each key absent, well-formed, null
\* or of another type, and a key that is no field of HealthCheck.
Payloads ==
    { ObjectOf(c) :
        c \in [name    : {None, Some(JString("influxdb"))},
               status  : {None, Some(JString("pass")), Some(JString("fail")),
                          Some(JString("warn")), Some(JNull)},
               message : {None, Some(JString("ready")), Some(JNull), Some(JNumber)},
               checks  : {None, Some(JNull), Some(JArray(<<>>))}
                         \cup {Some(JArray(<<n>>)) : n \in NestedChecks(MaxDepth)}
                         \cup {Some(JArray(<<n, n>>)) : n \in NestedChecks(1)},
               version : {None, Some(JString("2.0.0")), Some(JNull)},
               commit  : {None, Some(JString("abc123"))},
               extra   : {None, Some(JString("x"))}] }

\* ------------------------------------------------------------------- state

VARIABLES
    pc,         \* "start", "ready" (a Client exists) or "panicked"
    client,     \* Option<Client>
    panic_msg,  \* Option: the message of the constructor's panic
    ctor,       \* the constructor call that was made (its name and arguments)
    calls,      \* the names of the with_* calls made on the client, in order
    args,       \* the argument of the last call of each with_* method (an Option)
    request,    \* Option: the RequestBuilder of the last build_request call
    nrequests,  \* the number of build_request calls made
    hc_pc,      \* "idle", "received", "decoded", "rejected" or "encoded"
    payload,    \* Option: the JSON payload received
    decoded,    \* Option: the HealthCheck decoded from the payload
    encoded     \* Option: the JSON object the HealthCheck was encoded to

client_vars == <<pc, client, panic_msg, ctor, calls, args, request, nrequests>>
hc_vars == <<hc_pc, payload, decoded, encoded>>
vars == <<client_vars, hc_vars>>

InitClient ==
    /\ pc = "start"
    /\ client = None
    /\ panic_msg = None
    /\ ctor = None
    /\ calls = <<>>
    /\ args = [with_org |-> None, with_bucket |-> None, with_precision |-> None]
    /\ request = None
    /\ nrequests = 0

Init ==
    /\ InitClient
    /\ hc_pc = "idle"
    /\ payload = None
    /\ decoded = None
    /\ encoded = None

\* The constructor returned or panicked.
Construct(outcome, call) ==
    /\ ctor' = Some(call)
    /\ IF outcome.panicked
       THEN /\ pc' = "panicked"
            /\ panic_msg' = Some(outcome.msg)
            /\ client' = None
       ELSE /\ pc' = "ready"
            /\ panic_msg' = None
            /\ client' = Some(outcome.client)
    /\ UNCHANGED <<calls, args, request, nrequests, hc_vars>>

New ==
    /\ pc = "start"
    /\ \E u \in Urls, t \in Tokens :
        Construct(new(u, t), [fn |-> "new", url |-> u, token |-> t])

NewV1 ==
    /\ pc = "start"
    /\ \E u \in Urls, un \in Usernames, pw \in Passwords,
          db \in Databases, rp \in RetentionPolicies :
        Construct(new_v1(u, un, pw, db, rp),
                  [fn |-> "new_v1", url |-> u, username |-> un, password |-> pw,
                   database |-> db, retention_policy |-> rp])

\* A call of build_client by code of the module itself with no authorization
\* header (Auth is private to the module).
BuildClientNoAuth ==
    /\ pc = "start"
    /\ \E u \in Urls :
        Construct(build_client(u, Auth(None)), [fn |-> "build_client", url |-> u])

\* A with_* call consumes the client and returns the updated one.
Configure(updated, fn, arg) ==
    /\ client' = Some(updated)
    /\ calls' = Append(calls, fn)
    /\ args' = [args EXCEPT ![fn] = Some(arg)]
    /\ UNCHANGED <<pc, panic_msg, ctor, request, nrequests, hc_vars>>

WithOrg ==
    /\ pc = "ready"
    /\ Len(calls) < MaxCalls
    /\ \E o \in Orgs :
        Configure(with_org(Unwrap(client), o), "with_org", o)

WithBucket ==
    /\ pc = "ready"
    /\ Len(calls) < MaxCalls
    /\ \E b \in Buckets :
        Configure(with_bucket(Unwrap(client), b), "with_bucket", b)

WithPrecision ==
    /\ pc = "ready"
    /\ Len(calls) < MaxCalls
    /\ \E p \in WritePrecision :
        Configure(with_precision(Unwrap(client), p), "with_precision", p)

BuildRequest ==
    /\ pc = "ready"
    /\ nrequests < MaxRequests
    /\ \E u \in RequestUrls, m \in Methods :
        request' = Some([url |-> u, method |-> m,
                         builder |-> build_request(Unwrap(client), u, m)])
    /\ nrequests' = nrequests + 1
    /\ UNCHANGED <<pc, client, panic_msg, ctor, calls, args, hc_vars>>

\* The public interface of Client (build_request is called by the crate).
Next ==
    \/ New
    \/ NewV1
    \/ WithOrg
    \/ WithBucket
    \/ WithPrecision
    \/ BuildRequest

Spec == Init /\ [][Next]_vars

\* The public interface and the module's own use of build_client.
NextModule ==
    \/ New
    \/ NewV1
    \/ BuildClientNoAuth
    \/ WithOrg
    \/ WithBucket
    \/ WithPrecision
    \/ BuildRequest

SpecModule == Init /\ [][NextModule]_vars

\* ------------------------------------------- decoding and encoding payloads

InitHealthCheck ==
    /\ InitClient
    /\ hc_pc = "received"
    /\ payload \in {Some(p) : p \in Payloads}
    /\ decoded = None
    /\ encoded = None

\* serde_json::from_value::<HealthCheck>(payload)
Decode ==
    /\ hc_pc = "received"
    /\ LET r == DeserializeHealthCheck(Unwrap(payload)) IN
       IF r.ok THEN hc_pc' = "decoded" /\ decoded' = Some(r.value)
       ELSE hc_pc' = "rejected" /\ decoded' = None
    /\ UNCHANGED <<payload, encoded, client_vars>>

\* serde_json::to_value(&health_check)
Encode ==
    /\ hc_pc = "decoded"
    /\ hc_pc' = "encoded"
    /\ encoded' = Some(SerializeHealthCheck(Unwrap(decoded)))
    /\ UNCHANGED <<payload, decoded, client_vars>>

NextHealthCheck ==
    \/ Decode
    \/ Encode

SpecHealthCheck == InitHealthCheck /\ [][NextHealthCheck]_vars

\* ------------------------------------------------------------ properties

\* The constructor call, the client and the last request, once there is one.
TheCtor == Unwrap(ctor)
TheClient == Unwrap(client)
TheRequest == Unwrap(request)

\* The client the constructor call returned, before any with_* call.
ConstructedClient ==
    IF TheCtor.fn = "new" THEN new(TheCtor.url, TheCtor.token).client
    ELSE IF TheCtor.fn = "new_v1"
    THEN new_v1(TheCtor.url, TheCtor.username, TheCtor.password,
                TheCtor.database, TheCtor.retention_policy).client
    ELSE build_client(TheCtor.url, Auth(None)).client

\* The headers of the last request as sent.
SentRequestHeaders == SentHeaders(TheClient.http_client, TheRequest.builder)

\* C1: Client::new(u, t) with a URL string u that parses yields a client whose
\* url is the parsed form of u, whose org and bucket are None and whose
\* precision is WritePrecision::Ns.
C1_NewDefaults ==
    (IsSome(ctor) /\ TheCtor.fn = "new" /\ UrlParse(TheCtor.url).ok /\ calls = <<>>)
    => /\ pc = "ready"
       /\ TheClient.url = UrlParse(TheCtor.url).url
       /\ TheClient.org = None
       /\ TheClient.bucket = None
       /\ TheClient.precision = Some("Ns")
       /\ (TheCtor.url = <<"h", "t", "t", "p", ":", "/", "/", "l", "o", "c", "a", "l", "h", "o", "s", "t", ":", "9", "9", "9", "9">>
           => TheClient.url = [scheme |-> <<"h", "t", "t", "p">>, host |-> Some(<<"l", "o", "c", "a", "l", "h", "o", "s", "t">>),
                               port |-> Some(9999), path |-> <<"/">>])

\* A client just built by new from a URL string whose parsed form is not the
\* string itself.
C1_Witness ==
    /\ pc = "ready"
    /\ TheCtor.fn = "new"
    /\ calls = <<>>
    /\ TheCtor.url = <<"H", "T", "T", "P", ":", "/", "/", "L", "o", "c", "a", "l", "H", "o", "s", "t", ":", "8", "0">>
    /\ TheClient.url.host = Some(<<"l", "o", "c", "a", "l", "h", "o", "s", "t">>)
    /\ TheClient.url.port = None

\* C2: a URL string that does not parse makes new and new_v1 alike panic with
\* the parse error as the message and yield no client, and a constructor panics
\* for no other reason.
C2_UrlPanic ==
    (IsSome(ctor) /\ TheCtor.fn \in {"new", "new_v1"})
    => /\ (pc = "panicked") <=> ~UrlParse(TheCtor.url).ok
       /\ (pc = "panicked") => /\ client = None
                               /\ panic_msg = Some(UrlParse(TheCtor.url).err)
       /\ (TheCtor.url = <<"x", "y", "z">>) => panic_msg = Some("relative URL without a base")
       /\ (pc = "ready") => IsSome(client)

\* new_v1 panicked on the URL string of tests::test_url_panic.
C2_Witness ==
    /\ pc = "panicked"
    /\ TheCtor.fn = "new_v1"
    /\ TheCtor.url = <<"x", "y", "z">>
    /\ client = None
    /\ panic_msg = Some("relative URL without a base")

\* C3: new_v1 with a URL that parses yields a client whose authorization value
\* is "Token " + username + ":" + password, whose org is "-", whose bucket is
\* database + "/" + retention_policy and whose precision is Ns.
C3_NewV1 ==
    (IsSome(ctor) /\ TheCtor.fn = "new_v1" /\ UrlParse(TheCtor.url).ok /\ calls = <<>>)
    => /\ pc = "ready"
       /\ TheClient.url = UrlParse(TheCtor.url).url
       /\ TheClient.auth.authorization_header =
              Some(<<"T", "o", "k", "e", "n", " ">> \o TheCtor.username \o <<":">> \o TheCtor.password)
       /\ TheClient.org = Some(<<"-">>)
       /\ TheClient.bucket = Some(TheCtor.database \o <<"/">> \o TheCtor.retention_policy)
       /\ TheClient.precision = Some("Ns")
       /\ (/\ TheCtor.username = <<"m", "y", "-", "u", "s", "e", "r">>
           /\ TheCtor.password = <<"m", "y", "-", "p", "a", "s", "s", "w", "o", "r", "d">>
           /\ TheCtor.database = <<"t", "e", "l", "e", "g", "r", "a", "f">>
           /\ TheCtor.retention_policy = <<"a", "u", "t", "o", "g", "e", "n">>)
          => /\ TheClient.auth.authorization_header = Some(<<"T", "o", "k", "e", "n", " ", "m", "y", "-", "u", "s", "e", "r", ":", "m", "y", "-", "p", "a", "s", "s", "w", "o", "r", "d">>)
             /\ TheClient.bucket = Some(<<"t", "e", "l", "e", "g", "r", "a", "f", "/", "a", "u", "t", "o", "g", "e", "n">>)

\* The client of tests::test_v1.
C3_Witness ==
    /\ pc = "ready"
    /\ TheCtor.fn = "new_v1"
    /\ calls = <<>>
    /\ TheCtor.retention_policy = <<"a", "u", "t", "o", "g", "e", "n">>
    /\ TheClient.bucket = Some(<<"t", "e", "l", "e", "g", "r", "a", "f", "/", "a", "u", "t", "o", "g", "e", "n">>)

\* with_org, with_bucket and with_precision were each called once.
OnceEach ==
    /\ Len(calls) = 3
    /\ {calls[i] : i \in 1..3} = {"with_org", "with_bucket", "with_precision"}

\* C4: after new(u, t), with_org(o), with_bucket(b) and with_precision(p) once
\* each, in any order, yield the configuration that the order org, bucket,
\* precision yields, with org = o, bucket = b and precision = p.
C4_SettersCommute ==
    (pc = "ready" /\ TheCtor.fn = "new" /\ OnceEach)
    => LET o == Unwrap(args.with_org)
           b == Unwrap(args.with_bucket)
           p == Unwrap(args.with_precision)
       IN  /\ TheClient = with_precision(with_bucket(with_org(ConstructedClient, o), b), p)
           /\ TheClient.org = Some(o)
           /\ TheClient.bucket = Some(b)
           /\ TheClient.precision = Some(p)

\* The order of the example of Client::new: bucket, org, precision.
C4_Witness ==
    /\ pc = "ready"
    /\ TheCtor.fn = "new"
    /\ calls = <<"with_bucket", "with_org", "with_precision">>
    /\ TheClient.precision = Some("S")

\* The request of a client built by new(u, t) carries exactly the Authorization
\* header "Token " + t and the User-Agent of the crate.
TokenRequest ==
    /\ TheRequest.builder.ok
    /\ HeaderValues(SentRequestHeaders, "authorization") = <<<<"T", "o", "k", "e", "n", " ">> \o TheCtor.token>>
    /\ HeaderValues(SentRequestHeaders, "user-agent") = <<APP_USER_AGENT>>

\* C5 as stated: every build_request call on a client built by new(u, t)
\* yields a request with exactly one Authorization header, "Token " + t, and
\* the User-Agent "influxdb-client-rust/<version>".
C5_Original ==
    (IsSome(request) /\ TheCtor.fn = "new") => TokenRequest

\* C5: every build_request call on a client built by new(u, t), with a URL
\* that has a host and a token that makes "Token " + t a legal header value,
\* yields a request with exactly one Authorization header, "Token " + t, and
\* the User-Agent of the crate; any other call yields a builder that holds an
\* error and no request; and no build_request call changes the configuration.
C5_TokenHeader ==
    /\ [](  (IsSome(request) /\ TheCtor.fn = "new")
         => IF IsSome(TheRequest.url.host) /\ HeaderValueOk(<<"T", "o", "k", "e", "n", " ">> \o TheCtor.token)
            THEN /\ TokenRequest
                 /\ HeaderValues(SentRequestHeaders, "user-agent")
                      = <<<<"i", "n", "f", "l", "u", "x", "d", "b", "-", "c", "l", "i", "e", "n", "t", "-", "r", "u", "s", "t", "/", "1", ".", "0", ".", "0", "-", "a", "l", "p", "h", "a">>>>
            ELSE ~TheRequest.builder.ok)
    /\ [][nrequests' # nrequests => client' = client]_vars

\* The second build_request call on a client built by new, after with_* calls.
C5_Witness ==
    /\ IsSome(request)
    /\ TheCtor.fn = "new"
    /\ nrequests = 2
    /\ calls # <<>>
    /\ TheRequest.builder.ok
    /\ HeaderValues(SentRequestHeaders, "authorization") = <<<<"T", "o", "k", "e", "n", " ", "m", "y", "-", "t", "o", "k", "e", "n">>>>

\* C6: after new(u, t) and any with_* calls the authorization value is still
\* "Token " + t and the url is still the parsed form of u.
C6_AuthUrlFixed ==
    (pc = "ready" /\ TheCtor.fn = "new")
    => /\ TheClient.auth.authorization_header = Some(<<"T", "o", "k", "e", "n", " ">> \o TheCtor.token)
       /\ TheClient.url = UrlParse(TheCtor.url).url
       /\ TheClient.auth = ConstructedClient.auth
       /\ TheClient.http_client = ConstructedClient.http_client

\* A client built by new after a call of each with_* method.
C6_Witness ==
    /\ pc = "ready"
    /\ TheCtor.fn = "new"
    /\ TheCtor.token = <<"m", "y", "-", "t", "o", "k", "e", "n">>
    /\ OnceEach
    /\ TheClient.auth.authorization_header = Some(<<"T", "o", "k", "e", "n", " ", "m", "y", "-", "t", "o", "k", "e", "n">>)

\* C7: each of org, bucket and precision holds the argument of the last call
\* of its with_* method or, without such a call, its value at construction
\* (None, or "-" and the bucket of new_v1; Ns).
C7_LastSetterWins ==
    (pc = "ready" /\ TheCtor.fn \in {"new", "new_v1"})
    => /\ TheClient.org =
              IF IsSome(args.with_org) THEN args.with_org ELSE ConstructedClient.org
       /\ TheClient.bucket =
              IF IsSome(args.with_bucket) THEN args.with_bucket ELSE ConstructedClient.bucket
       /\ TheClient.precision =
              IF IsSome(args.with_precision) THEN args.with_precision ELSE Some("Ns")
       /\ ConstructedClient.org = IF TheCtor.fn = "new" THEN None ELSE Some(<<"-">>)

\* with_org called twice on a client of new_v1: the org is neither "-" nor the
\* first argument, and the bucket of new_v1 is overwritten too.
C7_Witness ==
    /\ pc = "ready"
    /\ TheCtor.fn = "new_v1"
    /\ calls = <<"with_org", "with_bucket", "with_org">>
    /\ TheClient.org = Some(<<"o", "r", "g", "-", "2">>)
    /\ TheClient.bucket = Some(<<"m", "y", "-", "b", "u", "c", "k", "e", "t">>)
    /\ ConstructedClient.bucket = Some(<<"t", "e", "l", "e", "g", "r", "a", "f", "/", "a", "u", "t", "o", "g", "e", "n">>)

\* A payload of the shape of HealthCheck: name and status ("pass" or "fail"),
\* any of message, checks, version and commit with a value of its type, the
\* checks of that shape too, and no other key.
RECURSIVE WellFormed(_)
WellFormed(object) ==
    /\ {"name", "status"} \subseteq DOMAIN object
    /\ DOMAIN object \subseteq HealthCheckKeys
    /\ object["name"].t = "string"
    /\ object["status"].t = "string"
    /\ object["status"].s \in {"pass", "fail"}
    /\ \A k \in DOMAIN object \cap {"message", "version", "commit"} : object[k].t = "string"
    /\ "checks" \in DOMAIN object
       => /\ object["checks"].t = "array"
          /\ \A i \in 1..Len(object["checks"].a) : WellFormed(object["checks"].a[i])

\* No key of the object, or of a nested check, has the value null.
RECURSIVE NoNulls(_)
NoNulls(object) ==
    \A k \in DOMAIN object :
        /\ object[k].t # "null"
        /\ \A i \in 1..Len(object[k].a) : NoNulls(object[k].a[i])

\* C8: a payload of the shape of HealthCheck decodes, and encoding the decoded
\* value gives the payload back: the same keys with the same values. Whatever
\* was decoded, the encoding has name and status, has an optional key exactly
\* when the field is Some, and has no null. The payload with only name and
\* status "fail" decodes to HealthCheck::new(name, Fail).
C8_RoundTrip ==
    LET p == Unwrap(payload) IN
    /\ (hc_pc # "received" /\ WellFormed(p)) => hc_pc \in {"decoded", "encoded"}
    /\ hc_pc = "encoded"
       => LET e == Unwrap(encoded)
              d == Unwrap(decoded)
          IN  /\ WellFormed(p) => e = p
              /\ {"name", "status"} \subseteq DOMAIN e
              /\ \A k \in {"message", "checks", "version", "commit"} :
                    k \in DOMAIN e <=> IsSome(d[k])
              /\ NoNulls(e)
    /\ (hc_pc \in {"decoded", "encoded"}
        /\ p = [name |-> JString("influxdb"), status |-> JString("fail")])
       => Unwrap(decoded) = HealthCheck_new("influxdb", "Fail")

\* A well-formed payload with nested checks and a version but no message and
\* no commit, decoded and encoded again.
C8_Witness ==
    /\ hc_pc = "encoded"
    /\ WellFormed(Unwrap(payload))
    /\ DOMAIN Unwrap(payload) = {"name", "status", "checks", "version"}
    /\ Len(Unwrap(payload)["checks"].a) = 2
    /\ Unwrap(payload)["status"].s = "fail"
    /\ Unwrap(encoded) = Unwrap(payload)

\* The one Authorization header the request is to carry: the stored value, or
\* the basic credentials r:d when none is stored.
ExpectedAuthorization ==
    IF IsSome(TheClient.auth.authorization_header)
    THEN Unwrap(TheClient.auth.authorization_header)
    ELSE <<"B", "a", "s", "i", "c", " ", "c", "j", "p", "k">>

\* C9 as stated: a request carries the stored authorization value when there
\* is one, the placeholder basic credentials when there is none, and so
\* authentication from exactly one of the two.
C9_Original ==
    IsSome(request)
    => /\ TheRequest.builder.ok
       /\ HeaderValues(TheRequest.builder.headers, "authorization") = <<ExpectedAuthorization>>

\* C9: a request for a URL with a host carries exactly one Authorization
\* header: the stored value when there is one and it is a legal header value,
\* the basic credentials r:d when none is stored. Any other call yields a
\* builder that holds an error and no request.
C9_OneAuthorization ==
    IsSome(request)
    => IF /\ IsSome(TheRequest.url.host)
          /\ HeaderValueOk(ExpectedAuthorization)
       THEN /\ TheRequest.builder.ok
            /\ HeaderValues(TheRequest.builder.headers, "authorization")
                 = <<ExpectedAuthorization>>
       ELSE ~TheRequest.builder.ok

\* A request of a client without a stored authorization value.
C9_Witness ==
    /\ IsSome(request)
    /\ TheCtor.fn = "build_client"
    /\ TheClient.auth.authorization_header = None
    /\ TheRequest.builder.ok
    /\ HeaderValues(TheRequest.builder.headers, "authorization") = <<<<"B", "a", "s", "i", "c", " ", "c", "j", "p", "k">>>>

\* C10: a client built by new or new_v1, after any with_* calls, has a stored
\* authorization value and a precision, and none of its requests carries the
\* placeholder basic credentials.
C10_AlwaysAuthorized ==
    pc = "ready"
    => /\ IsSome(TheClient.auth.authorization_header)
       /\ IsSome(TheClient.precision)
       /\ (IsSome(request) /\ TheRequest.builder.ok)
          => HeaderValues(TheRequest.builder.headers, "authorization")
               = <<Unwrap(TheClient.auth.authorization_header)>>

\* A request of a client built by new with the empty token, after a with_* call.
C10_Witness ==
    /\ pc = "ready"
    /\ TheCtor.fn = "new"
    /\ TheCtor.token = <<>>
    /\ calls # <<>>
    /\ IsSome(request)
    /\ TheRequest.builder.ok
    /\ HeaderValues(TheRequest.builder.headers, "authorization") = <<<<"T", "o", "k", "e", "n", " ">>>>

====
